---- MODULE Spec2Model ----
(***************************************************************************)
(* Model of dut_v3demura_demura.py: the MyzyDDS wrapper around the native  *)
(* DemuraDLL library.  The wrapper is sequential; every public method is   *)
(* one action.  The native library is the environment: each native call    *)
(* returns a status chosen nondeterministically and, where it fills a      *)
(* buffer, writes contents chosen nondeterministically.                    *)
(*                                                                         *)
(* Python values are records [t, v, items]: t is the Python type name, v   *)
(* the printed scalar, items the elements of a list.  Text that the code   *)
(* parses (versions, image-name lists) is a sequence of one-character      *)
(* strings.                                                                *)
(***************************************************************************)
EXTENDS Integers, Sequences, FiniteSets, TLC

VARIABLES is_screen_poweron, _host, _current_host, _emulator_mode,
          last, on_since, on_since_off, reset_addr

vars == <<is_screen_poweron, _host, _current_host, _emulator_mode,
          last, on_since, on_since_off, reset_addr>>

(***************************************************************************)
(* Bounds of the enumerated inputs.                                        *)
(***************************************************************************)
MaxNames == 2
MaxNameLen == 2

(***************************************************************************)
(* Python values.                                                          *)
(***************************************************************************)
PV(t, v) == [t |-> t, v |-> v, items |-> <<>>]
PyList(xs) == [t |-> "list", v |-> "", items |-> xs]
PyTrue == PV("bool", "True")
PyNone == PV("NoneType", "None")
PyStr(s) == PV("str", s)
PyBytes(s) == PV("bytes", s)
PyInt(n) == PV("int", ToString(n))

\* isinstance(x, int): bool is a subclass of int
IsInt(x) == x.t \in {"int", "bool"}
IsStr(x) == x.t = "str"
IsList(x) == x.t = "list"

\* str(host) as passed to OpenDevice; None prints as 'None'
NoneHost == "<None>"
str(h) == IF h = NoneHost THEN "None" ELSE h

(***************************************************************************)
(* errcode_description: keys are str.                                      *)
(***************************************************************************)
errcode_description ==
  [k \in {PyStr(c) : c \in {"0000", "0005", "0006", "0007", "0008", "0009",
          "8001", "8002", "8003", "8004", "8005", "8006", "8007", "8008",
          "8009", "8010", "8011", "8012", "8013", "8014", "8015", "8016",
          "8017", "8018", "8024", "8025", "8027", "8028", "9999"}} |->
     CASE k.v = "0000" -> "Success"
       [] k.v = "0005" -> "Powerboard Hardware error"
       [] k.v = "0006" -> "Powerboard Hardware version mismatch"
       [] k.v = "0007" -> "No vendor id"
       [] k.v = "0008" -> "MP3314 Config Error"
       [] k.v = "0009" -> "Panel is not 0x9c"
       [] k.v = "8001" -> "IOVCC Voltage over upper-limit 10P Mode"
       [] k.v = "8002" -> "IOVCC Voltage below lower-limit 10P Mode"
       [] k.v = "8003" -> "VSP Voltage over upper-limit 10P Mode"
       [] k.v = "8004" -> "VSP Voltage below lower-limit 10P Mode"
       [] k.v = "8005" -> "VSN Voltage over upper-limit 10P Mode"
       [] k.v = "8006" -> "VSN Voltage below lower-limit 10P Mode"
       [] k.v = "8007" -> "VLED Voltage over upper-limit 10P Mode"
       [] k.v = "8008" -> "VLED Voltage below lower-limit 10P Mode"
       [] k.v = "8009" -> "IOVCC Current over upper-limit 10P Mode"
       [] k.v = "8010" -> "IOVCC Current below lower-limit 10P Mode"
       [] k.v = "8011" -> "VSP Current over upper-limit 10P Mode"
       [] k.v = "8012" -> "VSP Current below lower-limit 10P Mode"
       [] k.v = "8013" -> "VSN Current over upper-limit 10P Mode"
       [] k.v = "8014" -> "VSN Current below lower-limit 10P Mode"
       [] k.v = "8015" -> "LED1 Current over upper-limit 10P Mode"
       [] k.v = "8016" -> "LED1 Current below lower-limit 10P Mode"
       [] k.v = "8017" -> "LED2 Current over upper-limit 10P Mode"
       [] k.v = "8018" -> "LED2 Current below lower-limit 10P Mode"
       [] k.v = "8024" -> "LED1 Current below lower-limit 100P Mode"
       [] k.v = "8025" -> "LED2 Current below lower-limit 100P Mode"
       [] k.v = "8027" -> "LED1 Current over upper-limit 100P Mode"
       [] k.v = "8028" -> "LED2 Current over upper-limit 100P Mode"
       [] k.v = "9999" -> "Communication exception"]

\* dict.get(key, None): a key of another type than the stored keys is absent
dict_get(d, key) == IF key \in DOMAIN d THEN d[key] ELSE "None"

(***************************************************************************)
(* Outcomes of a method call.                                              *)
(***************************************************************************)
\* DUTError.__init__ and DUTError.__str__: the message is the formatted
\* value, the err_code and the table lookup of the err_code
DUTError_str(value, err_code) ==
  [value |-> value, errcode |-> err_code,
   errmsg |-> dict_get(errcode_description, err_code)]

DUTError(value, errcode) ==
  [kind |-> "DUTError", val |-> PyNone, text |-> <<>>,
   value |-> value, err_code |-> errcode,
   msg |-> DUTError_str(value, errcode)]

Raise(exc) ==
  [kind |-> exc, val |-> PyNone, text |-> <<>>,
   value |-> "", err_code |-> PyNone, msg |-> DUTError_str("", PyNone)]

Return(v) ==
  [kind |-> "return", val |-> v, text |-> <<>>,
   value |-> "", err_code |-> PyNone, msg |-> DUTError_str("", PyNone)]

ReturnText(s) ==
  [kind |-> "return", val |-> PyStr(""), text |-> s,
   value |-> "", err_code |-> PyNone, msg |-> DUTError_str("", PyNone)]

(***************************************************************************)
(* Native calls: function name, argument, returned status, and what the    *)
(* library wrote to the output buffer (code for GetErrorCode, chars for    *)
(* the text buffers).                                                      *)
(***************************************************************************)
Call(fn, arg, ret) ==
  [fn |-> fn, arg |-> arg, ret |-> ret, code |-> "", chars |-> <<>>]
CallCode(fn, ret, code) ==
  [fn |-> fn, arg |-> "", ret |-> ret, code |-> code, chars |-> <<>>]
CallChars(fn, ret, chars) ==
  [fn |-> fn, arg |-> "", ret |-> ret, code |-> "", chars |-> chars]

\* The environment's answer to a failing call: the status GetErrorCode
\* returns (ignored by the wrapper) and the code it writes to the buffer.
Status == {0, 1}
ErrCodes == {"9999", "1234"}
Env == [st : Status, code : ErrCodes]

\* get_error_code: one GetErrorCode call; returns the buffer's bytes
get_error_code(env) ==
  [call |-> CallCode("GetErrorCode", env.st, env.code),
   value |-> PyBytes(env.code)]

\* the wrapper object's fields
Self == [is_screen_poweron |-> is_screen_poweron, _host |-> _host,
         _current_host |-> _current_host, _emulator_mode |-> _emulator_mode]

Result(self, calls, out) == [self |-> self, calls |-> calls, out |-> out]

\* "if res != 0: errcode = self.get_error_code(); raise DUTError(...)"
Fail(self, calls, value, env) ==
  LET g == get_error_code(env)
  IN  Result(self, Append(calls, g.call), DUTError(value, g.value))

(***************************************************************************)
(* Text helpers: str.split(sep), ','.join, str.strip.                      *)
(***************************************************************************)
RECURSIVE SplitFrom(_, _, _)
SplitFrom(s, sep, cur) ==
  IF s = <<>> THEN <<cur>>
  ELSE IF Head(s) = sep THEN <<cur>> \o SplitFrom(Tail(s), sep, <<>>)
       ELSE SplitFrom(Tail(s), sep, Append(cur, Head(s)))

\* s.split(sep): always at least one field, also for the empty string
str_split(s, sep) == SplitFrom(s, sep, <<>>)

RECURSIVE LStrip(_)
LStrip(s) == IF s # <<>> /\ Head(s) = " " THEN LStrip(Tail(s)) ELSE s
RECURSIVE RStrip(_)
RStrip(s) ==
  IF s # <<>> /\ s[Len(s)] = " " THEN RStrip(SubSeq(s, 1, Len(s) - 1)) ELSE s
str_strip(s) == LStrip(RStrip(s))

\* what GetEMMCImageName leaves in the buffer: the names joined by ','
RECURSIVE Join(_, _)
Join(names, sep) ==
  IF names = <<>> THEN <<>>
  ELSE IF Len(names) = 1 THEN names[1]
       ELSE names[1] \o <<sep>> \o Join(Tail(names), sep)

BoolStr(b) == IF b THEN "True" ELSE "False"

(***************************************************************************)
(* The methods of MyzyDDS.  Each takes the object's fields, the method's   *)
(* arguments, the status of each native call it may make and the           *)
(* environment's answer to a GetErrorCode query; it yields the new fields, *)
(* the native calls made in order, and the outcome.                        *)
(***************************************************************************)
enable_emulator(self, emulator) ==
  Result([self EXCEPT !._emulator_mode = emulator], <<>>, Return(PyNone))

open_device(self, host, ee, res, env) ==
  LET s1 == [self EXCEPT !.is_screen_poweron = FALSE, !._host = host]
      c  == <<Call("EnableEmulator", BoolStr(self._emulator_mode), ee),
              Call("OpenDevice", str(host), res)>>
  IN  IF res # 0
      THEN Fail(s1, c, "Unable to connect DUT. Received: " \o ToString(res), env)
      ELSE Result([s1 EXCEPT !._current_host = host], c, Return(PyTrue))

power_on(self, ntype, recv, env) ==
  IF ~self.is_screen_poweron
  THEN LET c == <<Call("PowerON", ToString(ntype), recv)>>
       IN  IF recv # 0
           THEN Fail(self, c, "Exit power_on because power_on failed.", env)
           ELSE Result([self EXCEPT !.is_screen_poweron = TRUE], c,
                       Return(PyTrue))
  ELSE \* falls off the end of the function
       Result(self, <<>>, Return(PyNone))

\* variant: the status of PowerOFF is not checked
power_off_unchecked(self, recv, env) ==
  Result([self EXCEPT !.is_screen_poweron = FALSE],
         <<Call("PowerOFF", "", recv)>>, Return(PyTrue))

\* variant: the flag is cleared before the status of PowerOFF is known
power_off_clears_first(self, recv, env) ==
  LET c == <<Call("PowerOFF", "", recv)>>
      s1 == [self EXCEPT !.is_screen_poweron = FALSE]
  IN  IF recv # 0
      THEN Fail(s1, c, "Exit power_off because power_off failed.", env)
      ELSE Result(s1, c, Return(PyTrue))

power_off(self, recv, env) ==
  LET c == <<Call("PowerOFF", "", recv)>>
  IN  IF recv # 0
      THEN Fail(self, c, "Exit power_off because power_off failed.", env)
      ELSE Result([self EXCEPT !.is_screen_poweron = FALSE], c, Return(PyTrue))

close_device(self, cd) ==
  Result([self EXCEPT !.is_screen_poweron = FALSE],
         <<Call("CloseDevice", "", cd)>>, Return(PyNone))

\* variant: the argument's type is not validated before the device is used
_show_EMMC_image_unvalidated(self, image, res, env) ==
  LET c == IF IsInt(image)
           THEN <<Call("ShowEMMCImageIndex", image.v, res)>>
           ELSE <<Call("ShowEMMCImageName", image.v, res)>>
  IN  IF res # 0
      THEN Fail(self, c, "Fail to show image " \o image.v \o ".", env)
      ELSE Result(self, c, Return(PyTrue))

_show_EMMC_image(self, image, res, env) ==
  IF ~(IsInt(image) \/ IsStr(image))
  THEN Result(self, <<>>, Raise("NotImplementedError"))
  ELSE LET c == IF IsInt(image)
                THEN <<Call("ShowEMMCImageIndex", image.v, res)>>
                ELSE <<Call("ShowEMMCImageName", image.v, res)>>
       IN  IF res # 0
           THEN Fail(self, c, "Fail to show image " \o image.v \o ".", env)
           ELSE Result(self, c, Return(PyTrue))

show_emmc_image(self, image, res, env) == _show_EMMC_image(self, image, res, env)

read_version(self, rec, buf, env) ==
  LET c == <<CallChars("ReadVersion", rec, buf)>>
  IN  IF rec # 0
      THEN Fail(self, c, "Unable to get FW version. Received: " \o ToString(rec), env)
      ELSE Result(self, c, ReturnText(buf))

read_dll_version(self, rec, buf, env) ==
  LET c == <<CallChars("ReadDLLVersion", rec, buf)>>
      parts == str_split(buf, ":")
  IN  IF rec # 0
      THEN Fail(self, c, "Unable to get DLL version. Received: " \o ToString(rec), env)
      ELSE IF Len(parts) < 2
           THEN Result(self, c, Raise("IndexError"))
           ELSE Result(self, c, ReturnText(str_strip(parts[2])))

\* variant: reconnects to the host last passed to open_device (_host)
reset_to_host(self, recv, cd, ee, res, env) ==
  LET p == power_off(self, recv, env)
  IN  IF p.out.kind # "return" THEN p
      ELSE LET c2 == Append(p.calls, Call("CloseDevice", "", cd))
               o  == open_device(p.self, p.self._host, ee, res, env)
           IN  IF o.out.kind # "return"
               THEN Result(o.self, c2 \o o.calls, o.out)
               ELSE Result(o.self, c2 \o o.calls, Return(PyTrue))

reset(self, recv, cd, ee, res, env) ==
  LET p == power_off(self, recv, env)
  IN  IF p.out.kind # "return" THEN p
      ELSE LET c2 == Append(p.calls, Call("CloseDevice", "", cd))
               o  == open_device(p.self, p.self._current_host, ee, res, env)
           IN  IF o.out.kind # "return"
               THEN Result(o.self, c2 \o o.calls, o.out)
               ELSE Result(o.self, c2 \o o.calls, Return(PyTrue))

write_image_to_emmc(self, filenames, isToRGB, res, env) ==
  IF ~IsList(filenames)
  THEN Result(self, <<>>, Raise("NotImplementedError"))
  ELSE IF \E i \in 1..Len(filenames.items) : ~IsStr(filenames.items[i])
       THEN \* filenames[file].encode on a non-str element
            Result(self, <<>>, Raise("AttributeError"))
       ELSE LET c == <<Call("WriteImageToEMMC",
                            ToString(Len(filenames.items)), res)>>
            IN  IF res # 0
                THEN Fail(self, c, "write image to EMMC Err. ", env)
                ELSE Result(self, c, Return(PyTrue))

get_emmc_image_name(self, res, buf, env) ==
  LET c == <<CallChars("GetEMMCImageName", res, buf)>>
  IN  IF res # 0
      THEN Fail(self, c, "get emmc image name err", env)
      ELSE Result(self, c, Return(PyList(str_split(buf, ","))))

set_device_ip_address(self, addr, rec, env) ==
  LET c == <<Call("SetDeviceIpAddress", ToString(addr), rec)>>
  IN  IF rec # 0
      THEN Fail(self, c, "Fail to set IP addr " \o ToString(addr), env)
      ELSE Result([self EXCEPT !._current_host = "192.168.21." \o ToString(addr)],
                  c, Return(PyTrue))

\* variant: raises without querying the device's error code (errcode=-1)
set_rgb_default_errcode(self, r, g, b, res, env) ==
  LET c == <<Call("SetRGB",
                  ToString(r) \o "," \o ToString(g) \o "," \o ToString(b), res)>>
  IN  IF res # 0
      THEN Result(self, c, DUTError("set rgb failed.", PyInt(-1)))
      ELSE Result(self, c, Return(PyTrue))

set_rgb(self, r, g, b, res, env) ==
  LET c == <<Call("SetRGB",
                  ToString(r) \o "," \o ToString(g) \o "," \o ToString(b), res)>>
  IN  IF res # 0
      THEN Fail(self, c, "set rgb failed.", env)
      ELSE Result(self, c, Return(PyTrue))

demura_mode(self, mode, recv, env) ==
  LET c == <<Call("DemuraMode", ToString(mode), recv)>>
  IN  IF recv # 0
      THEN Fail(self, c, "demura_mode  failed.", env)
      ELSE Result(self, c, Return(PyTrue))

\* crc.to_bytes(2, 'big') raises OverflowError outside 0..65535; the bytes
\* are stored in an attribute of the array, so the array passed stays zero
load_demura_file(self, filename, crc, recv, env) ==
  IF crc < 0 \/ crc > 65535
  THEN Result(self, <<>>, Raise("OverflowError"))
  ELSE LET c == <<Call("LoadDemuraFile", filename, recv)>>
       IN  IF recv # 0
           THEN Fail(self, c, "load_demura_file  failed.", env)
           ELSE Result(self, c, Return(PyTrue))

before_demura_poweron(self, recv, env) ==
  LET c == <<Call("BeforeDemuraPowerOn", "", recv)>>
  IN  IF recv # 0
      THEN Fail(self, c, "BeforeDemuraPowerOn  failed.", env)
      ELSE Result(self, c, Return(PyTrue))

demura_write(self, recv, env) ==
  LET c == <<Call("DemuraWrite", "", recv)>>
  IN  IF recv # 0
      THEN Fail(self, c, "DemuraWrite  failed.", env)
      ELSE Result(self, c, Return(PyTrue))

demura_protection(self, mode, recv, env) ==
  LET c == <<Call("DemuraProtection", ToString(mode), recv)>>
  IN  IF recv # 0
      THEN Fail(self, c, "DemuraProtection  failed.", env)
      ELSE Result(self, c, Return(PyTrue))

after_demura_poweron(self, recv, env) ==
  LET c == <<Call("AfterDemuraPowerOn", "", recv)>>
  IN  IF recv # 0
      THEN Fail(self, c, "AfterDemuraPowerOn  failed.", env)
      ELSE Result(self, c, Return(PyTrue))

demura_OTP(self, recv, env) ==
  LET c == <<Call("DemuraOTP", "", recv)>>
  IN  IF recv # 0
      THEN Fail(self, c, "DemuraOTP  failed.", env)
      ELSE Result(self, c, Return(PyTrue))

demura_read(self, filename, recv, env) ==
  LET c == <<Call("DemuraRead", filename, recv)>>
  IN  IF recv # 0
      THEN Fail(self, c, "DemuraRead  failed.", env)
      ELSE Result(self, c, Return(PyTrue))

(***************************************************************************)
(* Inputs.                                                                 *)
(***************************************************************************)
Hosts == {"192.168.21.132", "192.168.21.134"}
Addrs == {133, 134}
Images == {PyInt(0), PyInt(1), PyTrue, PyStr("b255.bmp"), PyStr("g255.bmp"),
           PV("float", "1.5"), PyNone}
FileLists == {PyList(<<>>), PyList(<<PyStr("b255.bmp")>>),
              PyList(<<PyStr("b255.bmp"), PyStr("g255.bmp")>>),
              PyList(<<PyStr("b255.bmp"), PyInt(1)>>),
              PyStr("b255.bmp"), PyNone}
Versions == {<<"V", "1">>, <<"D", ":", " ", "1", " ">>, <<>>}
Colours == {<<127, 127, 127>>, <<255, 255, 0>>}
Crcs == {0, 19422, 65536}
DemuraFiles == {"lut.bin"}

\* comma-free image names and the lists of them a device may report
Alphabet == {"a", "b"}
SeqsUpTo(S, n) == UNION {[1..k -> S] : k \in 0..n}
ImageNames == SeqsUpTo(Alphabet, MaxNameLen)
NameLists == SeqsUpTo(ImageNames, MaxNames)
SampleNameLists == {<<>>, <<<<"a">>>>, <<<<"a">>, <<"b", "a">>>>}

(***************************************************************************)
(* Observers of the call history, each a function of its previous value    *)
(* and the call just made.                                                 *)
(***************************************************************************)
Got0(ev, fn) == \E i \in 1..Len(ev.calls) : ev.calls[i].fn = fn /\ ev.calls[i].ret = 0

\* some power_on got 0 from PowerON, and since then no power_off succeeded
\* and no open_device, close_device or reset was invoked
ObsOnSince(g, ev) ==
  IF ev.op = "power_on" /\ Got0(ev, "PowerON") THEN TRUE
  ELSE IF \/ ev.op = "power_off" /\ ev.out.kind = "return"
          \/ ev.op \in {"open_device", "close_device", "reset"} THEN FALSE
  ELSE g

\* some power_on got 0 from PowerON, and since then no PowerOFF call got 0
\* (in power_off or in reset) and no open_device or close_device was invoked
ObsOnSinceOff(g, ev) ==
  IF ev.op = "power_on" /\ Got0(ev, "PowerON") THEN TRUE
  ELSE IF \/ Got0(ev, "PowerOFF")
          \/ ev.op \in {"open_device", "close_device"} THEN FALSE
  ELSE g

\* the host of the latest successful open_device, or 192.168.21.<addr> of a
\* successful set_device_ip_address after it
ObsResetAddr(g, ev) ==
  IF ev.op = "open_device" /\ ev.out.kind = "return" THEN ev.args.v
  ELSE IF ev.op = "set_device_ip_address" /\ ev.out.kind = "return"
       THEN "192.168.21." \o ev.args.v
  ELSE g

(***************************************************************************)
(* State machine.                                                          *)
(***************************************************************************)
Event(op, args, r) ==
  [op |-> op, args |-> args, pre |-> Self, calls |-> r.calls, out |-> r.out]

Do(op, args, r) ==
  /\ is_screen_poweron' = r.self.is_screen_poweron
  /\ _host' = r.self._host
  /\ _current_host' = r.self._current_host
  /\ _emulator_mode' = r.self._emulator_mode
  /\ last' = Event(op, args, r)
  /\ on_since' = ObsOnSince(on_since, Event(op, args, r))
  /\ on_since_off' = ObsOnSinceOff(on_since_off, Event(op, args, r))
  /\ reset_addr' = ObsResetAddr(reset_addr, Event(op, args, r))

Init ==
  /\ is_screen_poweron = FALSE
  /\ _host = NoneHost
  /\ _current_host = NoneHost
  /\ _emulator_mode = FALSE
  /\ last = [op |-> "__init__", args |-> PyNone, pre |-> Self,
             calls |-> <<>>, out |-> Return(PyNone)]
  /\ on_since = FALSE
  /\ on_since_off = FALSE
  /\ reset_addr = NoneHost

EnableEmulator == \E e \in BOOLEAN :
  Do("enable_emulator", PV("bool", BoolStr(e)), enable_emulator(Self, e))

OpenDevice == \E host \in Hosts, ee, res \in Status, env \in Env :
  Do("open_device", PyStr(host), open_device(Self, host, ee, res, env))

PowerOn == \E ntype \in {0, 1}, recv \in Status, env \in Env :
  Do("power_on", PyInt(ntype), power_on(Self, ntype, recv, env))

PowerOff == \E recv \in Status, env \in Env :
  Do("power_off", PyNone, power_off(Self, recv, env))

CloseDevice == \E cd \in Status :
  Do("close_device", PyNone, close_device(Self, cd))

ShowEmmcImage == \E image \in Images, res \in Status, env \in Env :
  Do("show_emmc_image", image, show_emmc_image(Self, image, res, env))

ReadVersion == \E buf \in Versions, rec \in Status, env \in Env :
  Do("read_version", PyNone, read_version(Self, rec, buf, env))

ReadDllVersion == \E buf \in Versions, rec \in Status, env \in Env :
  Do("read_dll_version", PyNone, read_dll_version(Self, rec, buf, env))

Reset == \E recv, cd, ee, res \in Status, env \in Env :
  Do("reset", PyNone, reset(Self, recv, cd, ee, res, env))

WriteImageToEmmc == \E f \in FileLists, rgb \in BOOLEAN, res \in Status, env \in Env :
  Do("write_image_to_emmc", f, write_image_to_emmc(Self, f, rgb, res, env))

GetEmmcImageName == \E names \in SampleNameLists, res \in Status, env \in Env :
  Do("get_emmc_image_name", PyList(names),
     get_emmc_image_name(Self, res, Join(names, ","), env))

SetDeviceIpAddress == \E addr \in Addrs, rec \in Status, env \in Env :
  Do("set_device_ip_address", PyInt(addr),
     set_device_ip_address(Self, addr, rec, env))

SetRgb == \E c \in Colours, res \in Status, env \in Env :
  Do("set_rgb", PyNone, set_rgb(Self, c[1], c[2], c[3], res, env))

DemuraMode == \E mode \in 0..2, recv \in Status, env \in Env :
  Do("demura_mode", PyInt(mode), demura_mode(Self, mode, recv, env))

LoadDemuraFile == \E f \in DemuraFiles, crc \in Crcs, recv \in Status, env \in Env :
  Do("load_demura_file", PyInt(crc), load_demura_file(Self, f, crc, recv, env))

BeforeDemuraPoweron == \E recv \in Status, env \in Env :
  Do("before_demura_poweron", PyNone, before_demura_poweron(Self, recv, env))

DemuraWrite == \E recv \in Status, env \in Env :
  Do("demura_write", PyNone, demura_write(Self, recv, env))

DemuraProtection == \E mode \in {0, 1}, recv \in Status, env \in Env :
  Do("demura_protection", PyInt(mode), demura_protection(Self, mode, recv, env))

AfterDemuraPoweron == \E recv \in Status, env \in Env :
  Do("after_demura_poweron", PyNone, after_demura_poweron(Self, recv, env))

DemuraOTP == \E recv \in Status, env \in Env :
  Do("demura_OTP", PyNone, demura_OTP(Self, recv, env))

DemuraRead == \E f \in DemuraFiles, recv \in Status, env \in Env :
  Do("demura_read", PyStr(f), demura_read(Self, f, recv, env))

Next ==
  \/ EnableEmulator
  \/ OpenDevice
  \/ PowerOn
  \/ PowerOff
  \/ CloseDevice
  \/ ShowEmmcImage
  \/ ReadVersion
  \/ ReadDllVersion
  \/ Reset
  \/ WriteImageToEmmc
  \/ GetEmmcImageName
  \/ SetDeviceIpAddress
  \/ SetRgb
  \/ DemuraMode
  \/ LoadDemuraFile
  \/ BeforeDemuraPoweron
  \/ DemuraWrite
  \/ DemuraProtection
  \/ AfterDemuraPoweron
  \/ DemuraOTP
  \/ DemuraRead

Spec == Init /\ [][Next]_vars

\* get_emmc_image_name over every bounded list of names, on a fresh object
GetEmmcImageNameAll == \E names \in NameLists, res \in Status, env \in Env :
  Do("get_emmc_image_name", PyList(names),
     get_emmc_image_name(Self, res, Join(names, ","), env))

NextNames == GetEmmcImageNameAll

SpecNames == Init /\ [][NextNames]_vars

(***************************************************************************)
(* Properties.  `last' is the most recent method call: its arguments, the  *)
(* fields before it, the native calls it made in order, and its outcome.   *)
(***************************************************************************)
PublicOps == {"open_device", "power_on", "power_off", "close_device", "reset",
              "show_emmc_image", "read_version", "read_dll_version",
              "write_image_to_emmc", "get_emmc_image_name",
              "set_device_ip_address", "set_rgb", "demura_mode",
              "load_demura_file", "before_demura_poweron", "demura_write",
              "demura_protection", "after_demura_poweron", "demura_OTP",
              "demura_read"}

Idx(calls) == 1..Len(calls)
Unchecked == {"EnableEmulator", "CloseDevice"}
Changed == Self # last.pre

\* C1 (as stated): if any native call of a public operation returns
\* nonzero the operation raises DUTError, and it completes without raising
\* only if every native call it made returned 0.
C1_AllCallsChecked ==
  last.op \in PublicOps =>
    /\ (\E i \in Idx(last.calls) : last.calls[i].ret # 0)
          => last.out.kind = "DUTError"
    /\ last.out.kind = "return"
          => \A i \in Idx(last.calls) : last.calls[i].ret = 0

\* C1 (amended): the same for every native call other than EnableEmulator
\* and CloseDevice, whose status the wrapper discards.
C1_CallsCheckedExceptEnableClose ==
  last.op \in PublicOps =>
    /\ (\E i \in Idx(last.calls) :
          last.calls[i].fn \notin Unchecked /\ last.calls[i].ret # 0)
          => last.out.kind = "DUTError"
    /\ last.out.kind = "return"
          => \A i \in Idx(last.calls) :
               last.calls[i].fn \notin Unchecked => last.calls[i].ret = 0

C1_Witness ==
  /\ last.op = "reset"
  /\ Len(last.calls) = 5
  /\ last.calls[2].fn = "CloseDevice" /\ last.calls[2].ret # 0
  /\ last.calls[4].fn = "OpenDevice" /\ last.calls[4].ret # 0
  /\ last.out.kind = "DUTError"

\* C2: when a status-checked native call returns nonzero, GetErrorCode is
\* queried exactly once, directly after the failing call and as the last
\* native call, and the DUTError raised carries the bytes it wrote as
\* err_code; an operation whose native calls all return 0 makes no query.
IsQuery(c) == c.fn = "GetErrorCode"
C2_ErrorCodeQueriedOnce ==
  LET calls == last.calls
      queries == {i \in Idx(calls) : IsQuery(calls[i])}
      failing == {i \in Idx(calls) : /\ ~IsQuery(calls[i])
                                     /\ calls[i].fn \notin Unchecked
                                     /\ calls[i].ret # 0}
  IN  /\ failing # {} =>
            /\ Cardinality(failing) = 1
            /\ \A i \in failing :
                 /\ queries = {i + 1}
                 /\ Len(calls) = i + 1
                 /\ last.out.kind = "DUTError"
                 /\ last.out.err_code = PyBytes(calls[i + 1].code)
      /\ (\A i \in Idx(calls) : ~IsQuery(calls[i]) => calls[i].ret = 0)
            => queries = {}
      /\ last.out.kind = "DUTError" => failing # {}

C2_Witness ==
  /\ last.op = "set_rgb"
  /\ last.out.kind = "DUTError"
  /\ Len(last.calls) = 2
  /\ last.calls[2].fn = "GetErrorCode" /\ last.calls[2].code = "9999"
  /\ last.out.err_code = PyBytes("9999")

\* C3: a reset whose native calls all succeed issues PowerOFF, CloseDevice,
\* EnableEmulator, OpenDevice in this order; OpenDevice is given the host
\* of the latest successful open_device, or 192.168.21.<addr> of a
\* successful set_device_ip_address after it (failed calls of either never
\* change it); afterwards is_screen_poweron is False.
C3_ResetReconnects ==
  (/\ last.op = "reset"
   /\ \A i \in Idx(last.calls) : last.calls[i].ret = 0)
  => /\ [i \in Idx(last.calls) |-> last.calls[i].fn]
          = <<"PowerOFF", "CloseDevice", "EnableEmulator", "OpenDevice">>
     /\ last.calls[4].arg = str(reset_addr)
     /\ last.out = Return(PyTrue)
     /\ is_screen_poweron = FALSE

C3_Witness ==
  /\ last.op = "reset"
  /\ last.out.kind = "return"
  /\ \A i \in Idx(last.calls) : last.calls[i].ret = 0
  /\ last.pre._host = "192.168.21.132"
  /\ last.calls[4].arg = "192.168.21.133"
  /\ last.pre.is_screen_poweron

\* C4 (as stated): every power_on that completes without raising returns
\* True.
C4_PowerOnReturnsTrue ==
  (last.op = "power_on" /\ last.out.kind = "return") => last.out.val = PyTrue

\* C5 (as stated): when GetErrorCode reports a code that is a key of
\* errcode_description, the message of the DUTError raised contains the
\* description of that code; it reports no description only for codes
\* absent from the table.
C5_MessageHasDescription ==
  last.out.kind = "DUTError" =>
    LET code == last.calls[Len(last.calls)].code
    IN  IF PyStr(code) \in DOMAIN errcode_description
        THEN last.out.msg.errmsg = errcode_description[PyStr(code)]
        ELSE last.out.msg.errmsg = "None"

\* C6 (as stated): a successful get_emmc_image_name returns exactly the
\* sequence of k >= 0 comma-free names the library wrote joined by ','.
C6_NamesRoundTrip ==
  (last.op = "get_emmc_image_name" /\ last.out.kind = "return")
    => last.out.val.items = last.args.items

PowerCallsKeepFlag ==
  /\ (/\ last.op \in {"power_on", "power_off"}
      /\ \E i \in Idx(last.calls) :
           last.calls[i].fn \in {"PowerON", "PowerOFF"} /\ last.calls[i].ret # 0)
       => is_screen_poweron = last.pre.is_screen_poweron
  /\ (last.op = "power_on" /\ last.pre.is_screen_poweron)
       => last.calls = <<>> /\ ~Changed

\* C7 (as stated): is_screen_poweron is True exactly when some power_on got
\* status 0 from PowerON and since then no power_off has succeeded and no
\* open_device, close_device or reset has been invoked; a power_on or
\* power_off whose native call fails leaves the flag unchanged, and a
\* power_on while the flag is True makes no native call and changes nothing.
C7_FlagSinceInvoked ==
  /\ is_screen_poweron = on_since
  /\ PowerCallsKeepFlag

\* C7 (amended): is_screen_poweron is True exactly when some power_on got
\* status 0 from PowerON and since then no PowerOFF call has returned 0
\* (in power_off or as the first step of reset) and no open_device or
\* close_device has been invoked; the rest as stated.
C7_FlagSincePowerOff ==
  /\ is_screen_poweron = on_since_off
  /\ PowerCallsKeepFlag

C7_Witness ==
  /\ last.op = "reset"
  /\ last.out.kind = "DUTError"
  /\ last.calls[1].fn = "PowerOFF" /\ last.calls[1].ret # 0
  /\ is_screen_poweron
  /\ on_since_off

\* C8: show_emmc_image with an argument that is neither int nor str, and
\* write_image_to_emmc with filenames that is not a list, raise
\* NotImplementedError with no native call and no change of the fields;
\* show_emmc_image with an int calls ShowEMMCImageIndex and with a str
\* ShowEMMCImageName, once, and makes no other device call than the
\* GetErrorCode query that follows a failure.
C8_ValidationFirst ==
  /\ (last.op = "show_emmc_image" /\ ~IsInt(last.args) /\ ~IsStr(last.args))
       => /\ last.out.kind = "NotImplementedError"
          /\ last.calls = <<>>
          /\ ~Changed
  /\ (last.op = "write_image_to_emmc" /\ ~IsList(last.args))
       => /\ last.out.kind = "NotImplementedError"
          /\ last.calls = <<>>
          /\ ~Changed
  /\ (last.op = "show_emmc_image" /\ (IsInt(last.args) \/ IsStr(last.args)))
       => /\ Len(last.calls) >= 1
          /\ last.calls[1].fn = (IF IsInt(last.args) THEN "ShowEMMCImageIndex"
                                 ELSE "ShowEMMCImageName")
          /\ last.calls[1].arg = last.args.v
          /\ \A i \in Idx(last.calls) :
               i > 1 => /\ IsQuery(last.calls[i])
                        /\ i = 2
                        /\ last.calls[1].ret # 0

C8_Witness ==
  /\ last.op = "show_emmc_image"
  /\ last.args.t = "float"
  /\ last.out.kind = "NotImplementedError"
  /\ last.calls = <<>>
  /\ last.pre.is_screen_poweron

====
